---- MODULE Spec2Model ----
(***************************************************************************)
(* Ext.ux.tree.TreeGridNodeUI.updateColumns, as overridden in              *)
(* deluge/ui/web/js/ext-extensions/tree/TreeGridNodeUIFix.js.              *)
(*                                                                         *)
(* One tree owns an ordered sequence of column definitions; every row of   *)
(* the tree has an attribute mapping, a rendered flag and a sequence of    *)
(* cell slots.  Cell 0 is this.anchor.firstChild, cell j >= 1 is           *)
(* this.elNode.childNodes[j].firstChild.  The loop index i and the loop    *)
(* bound len are assigned without a declaration, so they are properties of *)
(* the global object and not locals of an invocation.  A template is       *)
(* foreign code run in the middle of an assignment: it may throw and it    *)
(* may call updateColumns again, so invocations form a stack.              *)
(***************************************************************************)
EXTENDS Integers, Sequences, FiniteSets

VARIABLES cols, attributes, rendered, cells, i, len, stack, done

vars == <<cols, attributes, rendered, cells, i, len, stack, done>>

(* ---------------------------- bounds ----------------------------------- *)

\* longest column sequence of the tree
MaxCols == 3
\* deepest nesting of invocations the engine's call stack allows
MaxDepth == 3

\* the rows of the tree
Rows == {"rowA", "rowB"}

(* ---------------------------- JS values -------------------------------- *)

Undefined == [type |-> "undefined"]
Str(s) == [type |-> "string", str |-> s]
Num(n) == [type |-> "number", num |-> n]
Bool(b) == [type |-> "boolean", bool |-> b]

\* ToBoolean: what `x ? ..` and `x || ..` test
ToBoolean(v) ==
    CASE v.type = "undefined" -> FALSE
      [] v.type = "string" -> v.str # ""
      [] v.type = "number" -> v.num # 0
      [] v.type = "boolean" -> v.bool

Digit(d) ==
    CASE d = 0 -> "0" [] d = 1 -> "1" [] d = 2 -> "2" [] d = 3 -> "3"
      [] d = 4 -> "4" [] d = 5 -> "5" [] d = 6 -> "6" [] d = 7 -> "7"
      [] d = 8 -> "8" [] d = 9 -> "9"

RECURSIVE NumberToString(_)
NumberToString(n) ==
    IF n < 10 THEN Digit(n) ELSE NumberToString(n \div 10) \o Digit(n % 10)

\* ToString: what assigning a value to innerHTML stores
ToString(v) ==
    CASE v.type = "undefined" -> "undefined"
      [] v.type = "string" -> v.str
      [] v.type = "number" -> NumberToString(v.num)
      [] v.type = "boolean" -> IF v.bool THEN "true" ELSE "false"

\* x || y
Or(x, y) == IF ToBoolean(x) THEN x ELSE y

(* ---------------------------- inputs ----------------------------------- *)

NoTpl == "none"

\* the column definitions a tree may be configured with
ColumnDefs ==
    { [dataIndex |-> "name", tpl |-> NoTpl, text |-> "Name"],
      [dataIndex |-> "size", tpl |-> NoTpl, text |-> "Size"],
      [dataIndex |-> "size", tpl |-> "tplSize", text |-> "Size"],
      [dataIndex |-> "link", tpl |-> "tplLink", text |-> "Link"] }

RECURSIVE SeqsUpTo(_, _)
SeqsUpTo(S, n) ==
    IF n = 0 THEN {<<>>}
    ELSE LET shorter == SeqsUpTo(S, n - 1)
         IN shorter \cup { Append(s, x) : s \in shorter, x \in S }

Distinct(s) == \A p, q \in 1..Len(s) : p # q => s[p] # s[q]

ColumnSeqs == { s \in SeqsUpTo(ColumnDefs, MaxCols) : Distinct(s) }

\* the attribute mappings a row may carry; an absent key reads as undefined
AttributeChoices(r) ==
    { [name |-> Str("file.txt"), size |-> Num(1024), link |-> Undefined],
      [name |-> Str(""), size |-> Num(1024), link |-> Undefined],
      [name |-> Str("file.txt"), size |-> Num(0), link |-> Undefined],
      [name |-> Bool(TRUE), size |-> Bool(FALSE), link |-> Undefined],
      [name |-> Undefined, size |-> Undefined, link |-> Undefined] }
    \cup { [name |-> Str("file.txt"), size |-> Num(1024), link |-> Str(q)] :
               q \in Rows \ {r} }

\* text left in a cell by an earlier rendering
OldText == "old"

(* ---------------------------- templates -------------------------------- *)

\* tplSize formats a.size with a number method: anything but a number throws.
\* tplLink refreshes the row named by a.link when there is one.
TplThrows(tpl, a) == tpl = "tplSize" /\ a.size.type # "number"

TplNests(tpl, a) == tpl = "tplLink" /\ a.link.type = "string"

\* c.tpl.apply(a)
TplApply(tpl, a) ==
    CASE tpl = "tplSize" -> Str(NumberToString(a.size.num))
      [] tpl = "tplLink" -> IF a.link.type = "string" THEN a.link ELSE Str("")

\* c.tpl ? c.tpl.apply(a) : a[c.dataIndex] || c.text
CellValue(c, a) ==
    IF c.tpl # NoTpl THEN TplApply(c.tpl, a) ELSE Or(a[c.dataIndex], Str(c.text))

(* ---------------------------- the DOM ---------------------------------- *)

\* cell j of row r exists (j = 0: the anchor's first child).  A missing slot is
\* a missing element (this.anchor or childNodes[j]), so reading its firstChild
\* throws while the assignment target is resolved, before the right-hand side.
SlotExists(cs, r, j) == j + 1 \in 1..Len(cs[r])

\* element.innerHTML += value
SetInnerHTMLAppending(old, value) == old \o ToString(value)

\* element.innerHTML = value
SetInnerHTML(old, value) == ToString(value)

\* the assignment reaches cell j of every row that has one
WriteCellEveryRow(cs, r, j, value) ==
    [q \in Rows |-> IF j + 1 \in 1..Len(cs[q])
                    THEN [cs[q] EXCEPT ![j + 1] = ToString(value)]
                    ELSE cs[q]]

\* the cells after the assignment to cell j of row r
WriteCell(cs, r, j, value) ==
    [cs EXCEPT ![r][j + 1] = SetInnerHTML(cs[r][j + 1], value)]

(* ---------------------------- invocations ------------------------------ *)

\* the guard left out
IsRenderedIgnored(r) == TRUE

\* this.rendered
IsRendered(r) == rendered[r]

\* for (var i = 1, len = cols.length; ...): the variables declared
LoopVarDeclared(global, local) == local

\* the undeclared i and len of the for statement resolve to the global object
LoopVar(global, local) == global

\* i += 2
NextIndexSkipping(x) == x + 2

\* i++
NextIndex(x) == x + 1

NewFrame(r) ==
    [row |-> r, pc |-> "guard", k |-> 0, val |-> Undefined, before |-> cells,
     writes |-> <<>>, applied |-> <<>>, nested |-> -1]

Depth == Len(stack)
Top == stack[Depth]
Running == Depth > 0

SetTop(f) == [stack EXCEPT ![Depth] = f]

\* updateColumns is called from outside, with no invocation in progress
Call(r) ==
    /\ ~Running
    /\ stack' = <<NewFrame(r)>>
    /\ UNCHANGED <<cols, attributes, rendered, cells, i, len, done>>

\* if (!this.rendered) return;  var a, t, cols, c = cols[0]
Guard ==
    /\ Running /\ Top.pc = "guard"
    /\ stack' = SetTop([Top EXCEPT !.pc = IF IsRendered(Top.row) THEN "first" ELSE "ret"])
    /\ UNCHANGED <<cols, attributes, rendered, cells, i, len, done>>

\* try { ... } catch (e) { return; } around the body
ThrowCaught(k) ==
    /\ stack' = <<>>
    /\ done' = [kind |-> "returned", row |-> stack[1].row, k |-> 0, snap |-> cells]
    /\ UNCHANGED <<cols, attributes, rendered, cells, i, len>>

\* an exception nobody catches unwinds every invocation in progress
Throw(k) ==
    /\ stack' = <<>>
    /\ done' = [kind |-> "fault", row |-> stack[1].row,
                k |-> IF Depth = 1 THEN k ELSE stack[1].k,
                snap |-> stack[1].before]
    /\ UNCHANGED <<cols, attributes, rendered, cells, i, len>>

\* the right-hand side for column k, evaluated after the target cell is resolved
Evaluate(k, wpc) ==
    LET c == cols[k + 1]
        a == attributes[Top.row]
        f == [Top EXCEPT !.pc = wpc, !.k = k]
    IN IF k + 1 \notin 1..Len(cols) THEN Throw(k)
       ELSE IF c.tpl = NoTpl
       THEN /\ stack' = SetTop([f EXCEPT !.val = CellValue(c, a)])
            /\ UNCHANGED <<cols, attributes, rendered, cells, i, len, done>>
       ELSE IF TplThrows(c.tpl, a) THEN Throw(k)
       ELSE IF TplNests(c.tpl, a)
       THEN IF Depth >= MaxDepth THEN Throw(k)
            ELSE /\ stack' = Append(SetTop([f EXCEPT !.val = CellValue(c, a),
                                                     !.applied = Append(@, k)]),
                                    NewFrame(a.link.str))
                 /\ UNCHANGED <<cols, attributes, rendered, cells, i, len, done>>
       ELSE /\ stack' = SetTop([f EXCEPT !.val = CellValue(c, a),
                                         !.applied = Append(@, k)])
            /\ UNCHANGED <<cols, attributes, rendered, cells, i, len, done>>

\* this.anchor.firstChild.innerHTML = (...): target, then right-hand side
EvalFirst ==
    /\ Running /\ Top.pc = "first"
    /\ IF ~SlotExists(cells, Top.row, 0) THEN Throw(0) ELSE Evaluate(0, "write0")

\* c = cols[i]; this.elNode.childNodes[i].firstChild.innerHTML = (...)
EvalBody ==
    /\ Running /\ Top.pc = "body"
    /\ IF ~SlotExists(cells, Top.row, i) THEN Throw(i) ELSE Evaluate(i, "write")

\* the store into the first cell, then i = 1, len = cols.length; i < len
WriteFirst ==
    /\ Running /\ Top.pc = "write0"
    /\ cells' = WriteCell(cells, Top.row, 0, Top.val)
    /\ i' = 1
    /\ len' = Len(cols)
    /\ stack' = SetTop([Top EXCEPT !.writes = Append(@, 0),
                                   !.pc = IF i' < len' THEN "body" ELSE "ret"])
    /\ UNCHANGED <<cols, attributes, rendered, done>>

\* the store into cell k, then i++; i < len
WriteBody ==
    /\ Running /\ Top.pc = "write"
    /\ cells' = WriteCell(cells, Top.row, Top.k, Top.val)
    /\ i' = NextIndex(LoopVar(i, Top.k))
    /\ len' = len
    /\ stack' = SetTop([Top EXCEPT !.writes = Append(@, Top.k),
                                   !.pc = IF i' < LoopVar(len, Len(cols))
                                          THEN "body" ELSE "ret"])
    /\ UNCHANGED <<cols, attributes, rendered, done>>

\* the invocation returns to the template that called it, or to the outside
Return ==
    /\ Running /\ Top.pc = "ret"
    /\ IF Depth = 1
       THEN /\ stack' = <<>>
            /\ done' = [kind |-> "returned", row |-> Top.row, k |-> 0, snap |-> cells]
       ELSE LET caller == stack[Depth - 1]
            IN /\ stack' = [SubSeq(stack, 1, Depth - 1) EXCEPT ![Depth - 1].nested =
                              IF rendered[Top.row] /\ caller.pc = "write"
                              THEN caller.k ELSE @]
               /\ done' = done
    /\ UNCHANGED <<cols, attributes, rendered, cells, i, len>>

Step == Guard \/ EvalFirst \/ EvalBody \/ WriteFirst \/ WriteBody \/ Return

\* the state before any call: a tree with its columns, rows with their
\* attributes and the cells an earlier rendering left; a row that is not
\* rendered has either no cells or the cells of every column
Init ==
    /\ cols \in ColumnSeqs
    /\ attributes \in { f \in [Rows -> UNION { AttributeChoices(r) : r \in Rows }] :
                          \A r \in Rows : f[r] \in AttributeChoices(r) }
    /\ rendered \in [Rows -> BOOLEAN]
    /\ \E n \in [Rows -> 0..MaxCols] :
          /\ \A r \in Rows : ~rendered[r] => n[r] \in {0, Len(cols)}
          /\ cells = [r \in Rows |-> [j \in 1..n[r] |-> OldText]]
    /\ i = 0
    /\ len = 0
    /\ stack = <<>>
    /\ done = [kind |-> "none", row |-> "rowA", k |-> 0, snap |-> cells]

Next == (\E r \in Rows : Call(r)) \/ Step

Spec == Init /\ [][Next]_vars

(* ---------------------------- claims ----------------------------------- *)

\* the top invocation has run to its end and not yet returned to its caller
AtReturn == Running /\ Top.pc = "ret"

\* the text column j computes for row r
Expected(r, j) == ToString(CellValue(cols[j + 1], attributes[r]))

\* cell j of row r
Cell(r, j) == cells[r][j + 1]

Columns == 0..(Len(cols) - 1)

\* C1: an invocation on a row that is not rendered returns normally, with
\* every cell of every row as it was, no cell written, no column read and no
\* template invoked; such a call never ends in a fault.
C1_NotRenderedNoOp ==
    /\ (AtReturn /\ ~rendered[Top.row]) =>
          /\ cells = Top.before
          /\ Top.writes = <<>>
          /\ Top.applied = <<>>
          /\ Top.val = Undefined
    /\ (~Running /\ done.kind = "fault") => rendered[done.row]

\* C1 witness: a row that is not rendered, with cells and with a template that
\* would throw, has been called and is about to return
C1_Witness ==
    /\ AtReturn /\ Depth = 1 /\ ~rendered[Top.row]
    /\ Len(cells[Top.row]) > 0
    /\ \E j \in Columns : TplThrows(cols[j + 1].tpl, attributes[Top.row])

\* C2: after an invocation on a rendered row completes, the cell of every
\* column with a template holds exactly the template's result.
C2_TemplateCells ==
    (AtReturn /\ rendered[Top.row]) =>
        \A j \in Columns :
            cols[j + 1].tpl # NoTpl =>
                /\ SlotExists(cells, Top.row, j)
                /\ Cell(Top.row, j) = ToString(TplApply(cols[j + 1].tpl, attributes[Top.row]))

\* the attribute is present and is not the empty string
PresentNonEmpty(v) == v.type # "undefined" /\ v # Str("")

\* C3: after an invocation on a rendered row completes, the cell of every
\* column without a template holds the attribute value when it is present and
\* not the empty string (0 and false included), and the fallback text otherwise.
C3_PlainCells ==
    (AtReturn /\ rendered[Top.row]) =>
        \A j \in Columns :
            cols[j + 1].tpl = NoTpl =>
                LET v == attributes[Top.row][cols[j + 1].dataIndex]
                IN /\ SlotExists(cells, Top.row, j)
                   /\ Cell(Top.row, j) = IF PresentNonEmpty(v) THEN ToString(v)
                                         ELSE cols[j + 1].text

\* C4: after an invocation on a rendered row with one cell slot per column
\* completes, cell j holds what column j computes, for every column j: none
\* is skipped and none lands in another column's cell.
C4_CellOrder ==
    (AtReturn /\ rendered[Top.row] /\ Len(cols) >= 1
              /\ Len(cells[Top.row]) = Len(cols)) =>
        \A j \in Columns : Cell(Top.row, j) = Expected(Top.row, j)

\* C5: a call from outside on the row of the call that completed just before
\* it ends with every cell holding the text it held after that first call.
C5_Idempotent ==
    (AtReturn /\ Depth = 1 /\ done.kind = "returned" /\ done.row = Top.row) =>
        cells = done.snap

\* C5 witness: the second of two calls on a rendered row of two or more
\* columns is about to return, the first having replaced the old text
C5_Witness ==
    /\ AtReturn /\ Depth = 1 /\ done.kind = "returned" /\ done.row = Top.row
    /\ rendered[Top.row] /\ Len(cols) >= 2 /\ Len(Top.writes) >= 2
    /\ Cell(Top.row, 0) # OldText

\* C6: a step of an invocation leaves the attribute mappings, the column
\* definitions, the rendered flags and the number of cell slots of every row
\* as they were, and changes cell text only in the row it was called on.
C6_OnlyOwnCellText ==
    [][ /\ attributes' = attributes
        /\ cols' = cols
        /\ rendered' = rendered
        /\ \A r \in Rows : Len(cells'[r]) = Len(cells[r])
        /\ \A r \in Rows : cells'[r] # cells[r] => Running /\ r = Top.row ]_vars

\* C6 witness: an invocation has rewritten two cells of its row while the
\* other row has cells of its own
C6_Witness ==
    /\ AtReturn /\ Len(Top.writes) >= 2
    /\ cells[Top.row] # Top.before[Top.row]
    /\ \E r \in Rows \ {Top.row} : Len(cells[r]) >= 2 /\ cells[r] = Top.before[r]

\* C7: no step changes state that outlives the invocation other than cell
\* text: the loop index and the loop bound are not shared state.
C7_NoSharedState == [][i' = i /\ len' = len]_vars

\* no template of the tree throws or calls back for row r, and r is rendered
\* with a cell slot for each of the n >= 1 columns
Plain(r) ==
    /\ rendered[r] /\ Len(cols) >= 1 /\ Len(cells[r]) >= Len(cols)
    /\ \A j \in Columns : /\ ~TplThrows(cols[j + 1].tpl, attributes[r])
                          /\ ~TplNests(cols[j + 1].tpl, attributes[r])

\* steps the top invocation still has to take: two per unwritten column, one
\* for the guard, one less once the pending store is computed
Remaining(f) ==
    2 * (Len(cols) - Len(f.writes))
      + (IF f.pc = "guard" THEN 1 ELSE 0)
      - (IF f.pc \in {"write0", "write"} THEN 1 ELSE 0)

\* C8: an invocation on a rendered row with n >= 1 columns, a slot for each,
\* and templates that neither throw nor call back always has a step to take,
\* each step brings it nearer its end, its writes are cells 0, 1, 2, .. in
\* that order, and at its end it has written each of the n cells once.
C8_TerminatesAfterNWrites ==
    /\ [](Running /\ Plain(Top.row) =>
            /\ ENABLED Step
            /\ \A p \in 1..Len(Top.writes) : Top.writes[p] = p - 1
            /\ Len(Top.writes) <= Len(cols)
            /\ Top.pc = "ret" => Len(Top.writes) = Len(cols))
    /\ [][Running /\ Plain(Top.row) =>
            \/ Len(stack') < Len(stack)
            \/ /\ Len(stack') = Len(stack)
               /\ Remaining(stack'[Depth]) < Remaining(Top)]_vars

\* C8 witness: such an invocation on a row of MaxCols columns is at its end
C8_Witness ==
    /\ AtReturn /\ Plain(Top.row) /\ Len(cols) = MaxCols
    /\ Len(Top.writes) = MaxCols
    /\ \E j \in Columns : cols[j + 1].tpl # NoTpl

\* column k of row r cannot be processed
FailsAt(r, k) ==
    \/ Len(cols) = 0 /\ k = 0
    \/ ~SlotExists(cells, r, k)
    \/ /\ k \in Columns
       /\ \/ TplThrows(cols[k + 1].tpl, attributes[r])
          \/ TplNests(cols[k + 1].tpl, attributes[r])

\* C9: a call from outside that fails at column k of a rendered row ends in a
\* fault, with the cells before k holding the text this call computed and
\* cell k and the cells after it holding the text they had before the call;
\* a call on a rendered row that returned met no failure at its first column.
C9_FaultNotAtomic ==
    /\ (~Running /\ done.kind = "fault") =>
          /\ rendered[done.row]
          /\ FailsAt(done.row, done.k)
          /\ \A j \in 0..(Len(cells[done.row]) - 1) :
                Cell(done.row, j) = IF j < done.k THEN Expected(done.row, j)
                                    ELSE done.snap[done.row][j + 1]
    /\ (~Running /\ done.kind = "returned" /\ rendered[done.row]) =>
          /\ Len(cols) >= 1
          /\ SlotExists(cells, done.row, 0)
          /\ ~TplThrows(cols[1].tpl, attributes[done.row])

\* C9 witness: a call failed at column 2 on a thrown template, after it
\* replaced the old text of cells 0 and 1; cell 2 still has the old text
C9_Witness ==
    /\ ~Running /\ done.kind = "fault" /\ done.k = 2
    /\ Len(cells[done.row]) >= 3
    /\ TplThrows(cols[3].tpl, attributes[done.row])
    /\ Cell(done.row, 0) # OldText /\ Cell(done.row, 1) # OldText
    /\ Cell(done.row, 2) = OldText
    /\ done.snap[done.row][1] = OldText

\* C10: when an invocation on a rendered row, called by the template of
\* column k >= 1, is at its end, the shared index is at or beyond the shared
\* bound; the calling invocation then writes cell k, leaves its loop, and
\* ends with the cells after k holding the text they had when it began.
C10_NestedCallEndsLoop ==
    /\ (AtReturn /\ Depth >= 2 /\ rendered[Top.row]
                 /\ stack[Depth - 1].pc = "write") => i >= len
    /\ (AtReturn /\ Top.nested >= 1) =>
          /\ Top.writes = [p \in 1..(Top.nested + 1) |-> p - 1]
          /\ \A j \in (Top.nested + 1)..(Len(cells[Top.row]) - 1) :
                Cell(Top.row, j) = Top.before[Top.row][j + 1]

\* C10 witness: the template of column 1 of three called back, and cell 2,
\* which the column would fill with other text, still has the old text
C10_Witness ==
    /\ AtReturn /\ Depth = 1 /\ Top.nested = 1 /\ Len(cols) = 3
    /\ Len(cells[Top.row]) = 3
    /\ Cell(Top.row, 2) = OldText
    /\ Expected(Top.row, 2) # OldText
    /\ Cell(Top.row, 1) = Expected(Top.row, 1)

====
